---- MODULE Spec2Model ----
(***************************************************************************)
(* Model of mally::statlib (src/statistics.hpp): sum, average, product,    *)
(* geometricMean, sumSquared, sumProduct, rawDeviationDenominatorPart,     *)
(* coefficientCorrelation and covariance over bounded integer ranges.      *)
(*                                                                         *)
(* HighPrecisionFloat (long double) values are modelled exactly, as the    *)
(* real number (num/den)*sqrt(rad) in canonical form: den > 0, num and den *)
(* coprime, rad square-free, zero written 0/1*sqrt(1).  Every value the    *)
(* library computes from integer inputs has this form.  Rounding of sqrt   *)
(* and of the final division is not modelled; sums and products of the     *)
(* bounded integers used here are exact in long double as well.            *)
(***************************************************************************)
EXTENDS Integers, Sequences, FiniteSets, TLC

\* Longest input range.
MaxLen == 3
\* Largest element of an input range; elements are drawn from -1..MaxVal.
MaxVal == 1
\* Largest magnitude of the arguments of a direct call of
\* rawDeviationDenominatorPart.
MaxArg == 3

Vals == (0 - 1)..MaxVal
Ranges == UNION {[1..k -> Vals] : k \in 0..MaxLen}

\* Largest magnitude of an element of the range passed to the functions of
\* one range, when those are called on their own.
MaxWide == 3

WideVals == (0 - MaxWide)..MaxWide
WideRanges == UNION {[1..k -> WideVals] : k \in 0..MaxLen}

VARIABLES
    seqX,      \* first input range of the caller
    seqY,      \* second input range of the caller
    fn,        \* name of the last function called, "none" before any call
    args,      \* <<sum, sumSquared, n>> of the last direct call of rawDeviationDenominatorPart
    ret,       \* value returned by the last call
    calls,     \* functions the last call invoked, in order
    threads    \* the call in progress on each thread of a concurrent caller

vars == <<seqX, seqY, fn, args, ret, calls, threads>>

---------------------------------------------------------------------------
\* Exact arithmetic on HighPrecisionFloat values.

Abs(i) == IF i < 0 THEN 0 - i ELSE i
Sgn(i) == IF i < 0 THEN 0 - 1 ELSE IF i > 0 THEN 1 ELSE 0

RECURSIVE Gcd(_, _)
Gcd(a, b) == IF b = 0 THEN a ELSE Gcd(b, a % b)

\* Largest c with c*c dividing r (r >= 1), searched upwards from c.
RECURSIVE SquarePart(_, _, _)
SquarePart(r, c, best) ==
    IF c * c > r THEN best
    ELSE SquarePart(r, c + 1, IF r % (c * c) = 0 THEN c ELSE best)

HZero == [num |-> 0, den |-> 1, rad |-> 1]

\* (n/d)*sqrt(r) with d > 0 and r square-free, in lowest terms.
HReduce(n, d, r) ==
    IF n = 0 THEN HZero
    ELSE LET g == Gcd(Abs(n), d)
         IN  [num |-> n \div g, den |-> d \div g, rad |-> r]

\* (n/d)*sqrt(r) with d > 0 and any r >= 0, in canonical form.
HNorm(n, d, r) ==
    IF n = 0 \/ r = 0 THEN HZero
    ELSE LET c == SquarePart(r, 1, 1)
         IN  HReduce(n * c, d, r \div (c * c))

IsRational(a) == a.rad = 1

\* a + b; the library only ever adds rational values.
HAdd(a, b) ==
    CASE a.num = 0 -> b
      [] b.num = 0 -> a
      [] a.rad = b.rad -> HReduce(a.num * b.den + b.num * a.den, a.den * b.den, a.rad)

HNeg(a) == [num |-> 0 - a.num, den |-> a.den, rad |-> a.rad]

HSub(a, b) == HAdd(a, HNeg(b))

HMul(a, b) ==
    LET g == Gcd(a.rad, b.rad)
    IN  HReduce(a.num * b.num * g, a.den * b.den, (a.rad \div g) * (b.rad \div g))

\* 1/a for a # 0:  1/((p/q)*sqrt(r)) = (q*sqrt(r))/(p*r).
HInv(a) == HReduce(Sgn(a.num) * a.den, Abs(a.num) * a.rad, a.rad)

\* a / b; IEEE division by zero gives an infinity (den = 0) or a NaN (0/0).
HDiv(a, b) ==
    IF b.num = 0 THEN [num |-> Sgn(a.num), den |-> 0, rad |-> 1]
    ELSE HMul(a, HInv(b))

\* a < 0
HNegative(a) == a.num < 0

\* std::sqrt of a rational a >= 0:  sqrt(p/q) = sqrt(p*q)/q.
HSqrt(a) ==
    CASE IsRational(a) /\ a.num >= 0 -> HNorm(1, a.den, a.num * a.den)

\* static_cast<std::size_t> of a non-negative rational: truncation.
ToSize(a) ==
    CASE IsRational(a) /\ a.num >= 0 -> a.num \div a.den

---------------------------------------------------------------------------
\* Values returned by geometricMean are written (num/den)^(1/idx), in
\* canonical form: den > 0, num and den coprime, idx the least index, zero
\* written (0/1)^(1/1).  A NaN is written with den = 0.

RECURSIVE IntPow(_, _)
IntPow(b, e) == IF e = 0 THEN 1 ELSE b * IntPow(b, e - 1)

\* The r >= from with r^d = m, or -1 when m is no d-th power.
RECURSIVE IntRootFrom(_, _, _)
IntRootFrom(m, d, from) ==
    IF IntPow(from, d) > m THEN 0 - 1
    ELSE IF IntPow(from, d) = m THEN from
    ELSE IntRootFrom(m, d, from + 1)

IntRoot(m, d) == IF d = 1 THEN m ELSE IntRootFrom(m, d, 1)

RootZero == [num |-> 0, den |-> 1, idx |-> 1]
RootNaN == [num |-> 0, den |-> 0, idx |-> 1]

\* (p/q)^(1/k) for coprime p, q >= 1: the largest divisor d of k of which
\* p and q are d-th powers is taken out of the index.
RootOfPositive(p, q, k) ==
    LET divisors == {d \in 1..k : k % d = 0 /\ IntRoot(p, d) > 0 /\ IntRoot(q, d) > 0}
        d == CHOOSE e \in divisors : \A f \in divisors : f <= e
    IN  [num |-> IntRoot(p, d), den |-> IntRoot(q, d), idx |-> k \div d]

\* std::powl(base, exponent) for a rational base and an exponent 1/k: the
\* k-th root; of a negative base the base itself when k = 1 and a NaN
\* otherwise.
powl(base, exponent) ==
    CASE IsRational(base) /\ exponent.num = 1 /\ exponent.rad = 1 ->
        LET k == exponent.den
        IN  IF base.num = 0 THEN RootZero
            ELSE IF base.num > 0 THEN RootOfPositive(base.num, base.den, k)
            ELSE IF k = 1 THEN [num |-> base.num, den |-> base.den, idx |-> 1]
            ELSE RootNaN

---------------------------------------------------------------------------
\* HighPrecisionResult = std::expected<HighPrecisionFloat, std::string>.
\* A diagnostic is its format string with the values formatted into it.

Expected(value) == [ok |-> TRUE, val |-> value]
Unexpected(fmt, fmtArgs) == [ok |-> FALSE, error |-> [fmt |-> fmt, args |-> fmtArgs]]

\* The conversion of an integer to HighPrecisionFloat.
toHPF(value) == [num |-> value, den |-> 1, rad |-> 1]

---------------------------------------------------------------------------
\* The library.

\* std::accumulate from 0.0L with acc + toHPF(val).
RECURSIVE sumFrom(_, _, _)
sumFrom(range, i, acc) ==
    IF i > Len(range) THEN acc
    ELSE sumFrom(range, i + 1, HAdd(acc, toHPF(range[i])))

\* sum seeded at 1.
sum_seedOne(range) == sumFrom(range, 1, toHPF(1))

\* sum starting at the second element.
sum_firstSkipped(range) == sumFrom(range, 2, HZero)

sum(range) == sumFrom(range, 1, HZero)

\* average dividing by one less than the length.
average_divisorOffByOne(range) ==
    IF Len(range) = 0 THEN HZero
    ELSE LET total == sum(range)
         IN  HDiv(total, toHPF(Len(range) - 1))

\* average without the check for an empty range.
average_noEmptyCheck(range) ==
    LET total == sum(range)
    IN  HDiv(total, toHPF(Len(range)))

average(range) ==
    IF Len(range) = 0 THEN HZero
    ELSE LET total == sum(range)
         IN  HDiv(total, toHPF(Len(range)))

\* std::accumulate from 1.0L with acc * toHPF(val).
RECURSIVE productFrom(_, _, _)
productFrom(range, i, acc) ==
    IF i > Len(range) THEN acc
    ELSE productFrom(range, i + 1, HMul(acc, toHPF(range[i])))

\* product seeded at 0.
product_seedZero(range) == productFrom(range, 1, HZero)

product(range) == productFrom(range, 1, toHPF(1))

\* geometricMean with the root index one too large.
geometricMean_indexOffByOne(range) ==
    IF Len(range) = 0 THEN RootZero
    ELSE LET totalProduct == product(range)
         IN  powl(totalProduct, HDiv(toHPF(1), toHPF(Len(range) + 1)))

\* The 0.0L of an empty range is written as a root value.
geometricMean(range) ==
    IF Len(range) = 0 THEN RootZero
    ELSE LET totalProduct == product(range)
         IN  powl(totalProduct, HDiv(toHPF(1), toHPF(Len(range))))

\* std::accumulate from 0.0L with acc + toHPF(val) * toHPF(val).
RECURSIVE sumSquaredFrom(_, _, _)
sumSquaredFrom(range, i, acc) ==
    IF i > Len(range) THEN acc
    ELSE LET valueSquared == HMul(toHPF(range[i]), toHPF(range[i]))
         IN  sumSquaredFrom(range, i + 1, HAdd(acc, valueSquared))

\* sumSquared adding the elements instead of their squares.
sumSquared_notSquared(range) == sumFrom(range, 1, HZero)

sumSquared(range) == sumSquaredFrom(range, 1, HZero)

\* std::transform_reduce over rangeX with rangeY from 0.0L: plus of
\* toHPF(x) * toHPF(y).
RECURSIVE transform_reduce(_, _, _, _)
transform_reduce(rangeX, rangeY, i, acc) ==
    IF i > Len(rangeX) THEN acc
    ELSE transform_reduce(rangeX, rangeY, i + 1,
                          HAdd(acc, HMul(toHPF(rangeX[i]), toHPF(rangeY[i]))))

\* sumProduct returning a negative total like any other.
sumProduct_negativeAccepted(rangeX, rangeY) ==
    IF Len(rangeX) # Len(rangeY)
    THEN Unexpected("rangeX.size() = {} != rangeY.size() = {}",
                    <<toHPF(Len(rangeX)), toHPF(Len(rangeY))>>)
    ELSE IF Len(rangeX) = 0
    THEN Unexpected("rangeX is empty!", <<>>)
    ELSE Expected(transform_reduce(rangeX, rangeY, 1, HZero))

\* sumProduct with the emptiness check moved before the length check.
sumProduct_emptyFirst(rangeX, rangeY) ==
    IF Len(rangeX) = 0
    THEN Unexpected("rangeX is empty!", <<>>)
    ELSE IF Len(rangeX) # Len(rangeY)
    THEN Unexpected("rangeX.size() = {} != rangeY.size() = {}",
                    <<toHPF(Len(rangeX)), toHPF(Len(rangeY))>>)
    ELSE LET total == transform_reduce(rangeX, rangeY, 1, HZero)
         IN  IF HNegative(total)
             THEN Unexpected("total {} is negative!", <<total>>)
             ELSE Expected(total)

sumProduct(rangeX, rangeY) ==
    IF Len(rangeX) # Len(rangeY)
    THEN Unexpected("rangeX.size() = {} != rangeY.size() = {}",
                    <<toHPF(Len(rangeX)), toHPF(Len(rangeY))>>)
    ELSE IF Len(rangeX) = 0
    THEN Unexpected("rangeX is empty!", <<>>)
    ELSE LET total == transform_reduce(rangeX, rangeY, 1, HZero)
         IN  IF HNegative(total)
             THEN Unexpected("total {} is negative!", <<total>>)
             ELSE Expected(total)

\* rawDeviationDenominatorPart with the count left out of the radicand.
rawDeviationDenominatorPart_countDropped(sumArg, sumSquaredArg, n) ==
    LET n_ld == toHPF(n)
        radicand == HSub(sumSquaredArg, HMul(sumArg, sumArg))
    IN  IF HNegative(radicand)
        THEN Unexpected("{} * {} - {}^2={}",
                        <<n_ld, sumSquaredArg, sumArg, radicand>>)
        ELSE Expected(HSqrt(radicand))

\* rawDeviationDenominatorPart with the sum not squared in the radicand.
rawDeviationDenominatorPart_sumNotSquared(sumArg, sumSquaredArg, n) ==
    LET n_ld == toHPF(n)
        radicand == HSub(HMul(n_ld, sumSquaredArg), sumArg)
    IN  IF HNegative(radicand)
        THEN Unexpected("{} * {} - {}^2={}",
                        <<n_ld, sumSquaredArg, sumArg, radicand>>)
        ELSE Expected(HSqrt(radicand))

\* rawDeviationDenominatorPart returning the radicand instead of its root.
rawDeviationDenominatorPart_noRoot(sumArg, sumSquaredArg, n) ==
    LET n_ld == toHPF(n)
        radicand == HSub(HMul(n_ld, sumSquaredArg), HMul(sumArg, sumArg))
    IN  IF HNegative(radicand)
        THEN Unexpected("{} * {} - {}^2={}",
                        <<n_ld, sumSquaredArg, sumArg, radicand>>)
        ELSE Expected(radicand)

\* sumArg and sumSquaredArg are HighPrecisionFloat values (toHPF leaves a
\* long double as it is); n is a std::size_t.
rawDeviationDenominatorPart(sumArg, sumSquaredArg, n) ==
    LET n_ld == toHPF(n)
        sum_ld == sumArg
        sumSquared_ld == sumSquaredArg
        radicand == HSub(HMul(n_ld, sumSquared_ld), HMul(sum_ld, sum_ld))
    IN  IF HNegative(radicand)
        THEN Unexpected("{} * {} - {}^2={}",
                        <<n_ld, sumSquaredArg, sumArg, radicand>>)
        ELSE Expected(HSqrt(radicand))

\* The size checks of coefficientCorrelation with the count checked first.
coefficientCorrelationSizeCheck_countFirst(sizeX, sizeY) ==
    IF sizeX < 2
    THEN <<Unexpected("not enough data points: n={}", <<toHPF(sizeX)>>)>>
    ELSE IF sizeX # sizeY
    THEN <<Unexpected("sizeX={} != sizeY()={}", <<toHPF(sizeX), toHPF(sizeY)>>)>>
    ELSE <<>>

\* The two size checks of coefficientCorrelation: the failure, or <<>>.
coefficientCorrelationSizeCheck(sizeX, sizeY) ==
    IF sizeX # sizeY
    THEN <<Unexpected("sizeX={} != sizeY()={}", <<toHPF(sizeX), toHPF(sizeY)>>)>>
    ELSE IF sizeX < 2
    THEN <<Unexpected("not enough data points: n={}", <<toHPF(sizeX)>>)>>
    ELSE <<>>

\* The numerator with sigma_xy not multiplied by n.
coefficientCorrelationNumerator_unscaled(n, sigma_xy, sigma_x, sigma_y) ==
    HSub(sigma_xy, HMul(sigma_x, sigma_y))

\* The numerator with the product of the sums added instead of subtracted.
coefficientCorrelationNumerator_plus(n, sigma_xy, sigma_x, sigma_y) ==
    HAdd(HMul(n, sigma_xy), HMul(sigma_x, sigma_y))

\* The numerator with sigma_x used in place of sigma_y.
coefficientCorrelationNumerator_sumXTwice(n, sigma_xy, sigma_x, sigma_y) ==
    HSub(HMul(n, sigma_xy), HMul(sigma_x, sigma_x))

\* const auto numerator = toHPF(n) * *sigma_xy - sigma_x * sigma_y;
coefficientCorrelationNumerator(n, sigma_xy, sigma_x, sigma_y) ==
    HSub(HMul(n, sigma_xy), HMul(sigma_x, sigma_y))

\* coefficientCorrelation computing both denominator factors before it
\* looks at the outcome of sumProduct.
coefficientCorrelationRun_factorsFirst(range_x, range_y) ==
    LET sizeX == Len(range_x)
        sizeY == Len(range_y)
        check == coefficientCorrelationSizeCheck(sizeX, sizeY)
    IN  IF check # <<>> THEN [ret |-> check[1], calls |-> <<>>]
        ELSE
        LET sigma_x == sum(range_x)
            sigma_y == sum(range_y)
            sigma_x2 == sumSquared(range_x)
            sigma_y2 == sumSquared(range_y)
            sigma_xy == sumProduct(range_x, range_y)
            n == toHPF(Len(range_x))
            denominator_x == rawDeviationDenominatorPart(sigma_x, sigma_x2, ToSize(n))
            denominator_y == rawDeviationDenominatorPart(sigma_y, sigma_y2, ToSize(n))
            calls3 == <<"sum", "sum", "sumSquared", "sumSquared", "sumProduct",
                        "rawDeviationDenominatorPart", "rawDeviationDenominatorPart">>
        IN  IF ~sigma_xy.ok THEN [ret |-> sigma_xy, calls |-> calls3]
            ELSE IF ~denominator_x.ok THEN [ret |-> denominator_x, calls |-> calls3]
            ELSE IF ~denominator_y.ok THEN [ret |-> denominator_y, calls |-> calls3]
            ELSE
            LET numerator == coefficientCorrelationNumerator(n, sigma_xy.val, sigma_x, sigma_y)
                denominator == HMul(denominator_x.val, denominator_y.val)
            IN  IF denominator = HZero
                THEN [ret |-> Unexpected("denominator is zero?", <<>>), calls |-> calls3]
                ELSE [ret |-> Expected(HDiv(numerator, denominator)), calls |-> calls3]

\* coefficientCorrelation: the value returned and the functions invoked.
coefficientCorrelationRun(range_x, range_y) ==
    LET sizeX == Len(range_x)
        sizeY == Len(range_y)
        check == coefficientCorrelationSizeCheck(sizeX, sizeY)
    IN  IF check # <<>> THEN [ret |-> check[1], calls |-> <<>>]
        ELSE
        LET sigma_x == sum(range_x)
            sigma_y == sum(range_y)
            sigma_x2 == sumSquared(range_x)
            sigma_y2 == sumSquared(range_y)
            sigma_xy == sumProduct(range_x, range_y)
            calls1 == <<"sum", "sum", "sumSquared", "sumSquared", "sumProduct">>
        IN  IF ~sigma_xy.ok THEN [ret |-> sigma_xy, calls |-> calls1]
            ELSE
            LET n == toHPF(Len(range_x))
                numerator == coefficientCorrelationNumerator(n, sigma_xy.val, sigma_x, sigma_y)
                denominator_x == rawDeviationDenominatorPart(sigma_x, sigma_x2, ToSize(n))
                calls2 == Append(calls1, "rawDeviationDenominatorPart")
            IN  IF ~denominator_x.ok THEN [ret |-> denominator_x, calls |-> calls2]
                ELSE
                LET denominator_y == rawDeviationDenominatorPart(sigma_y, sigma_y2, ToSize(n))
                    calls3 == Append(calls2, "rawDeviationDenominatorPart")
                IN  IF ~denominator_y.ok THEN [ret |-> denominator_y, calls |-> calls3]
                    ELSE
                    LET denominator == HMul(denominator_x.val, denominator_y.val)
                    IN  IF denominator = HZero
                        THEN [ret |-> Unexpected("denominator is zero?", <<>>),
                              calls |-> calls3]
                        ELSE [ret |-> Expected(HDiv(numerator, denominator)),
                              calls |-> calls3]

coefficientCorrelation(range_x, range_y) == coefficientCorrelationRun(range_x, range_y).ret

\* The size checks of covariance without the check of the count.
covarianceSizeCheck_countUnchecked(sizeX, sizeY) ==
    IF sizeX # sizeY
    THEN <<Unexpected("sizeX={} != sizeY={}", <<toHPF(sizeX), toHPF(sizeY)>>)>>
    ELSE <<>>

\* The size checks of covariance with the count checked first.
covarianceSizeCheck_countFirst(sizeX, sizeY) ==
    IF sizeX < 2
    THEN <<Unexpected("not enough data points: n={}", <<toHPF(sizeX)>>)>>
    ELSE IF sizeX # sizeY
    THEN <<Unexpected("sizeX={} != sizeY={}", <<toHPF(sizeX), toHPF(sizeY)>>)>>
    ELSE <<>>

\* The two size checks of covariance: the failure, or <<>>.
covarianceSizeCheck(sizeX, sizeY) ==
    IF sizeX # sizeY
    THEN <<Unexpected("sizeX={} != sizeY={}", <<toHPF(sizeX), toHPF(sizeY)>>)>>
    ELSE LET n == sizeX
         IN  IF n < 2
             THEN <<Unexpected("not enough data points: n={}", <<toHPF(n)>>)>>
             ELSE <<>>

\* The quotient of covariance with the two terms of the numerator exchanged.
covarianceQuotient_reversed(sigma_xy, sigma_x, sigma_y, n) ==
    LET numerator == HSub(HDiv(HMul(sigma_x, sigma_y), toHPF(n)), sigma_xy)
        denominator == toHPF(n - 1)
    IN  HDiv(numerator, denominator)

\* The quotient of covariance without Bessel's correction.
covarianceQuotient_dividedByN(sigma_xy, sigma_x, sigma_y, n) ==
    LET numerator == HSub(sigma_xy, HDiv(HMul(sigma_x, sigma_y), toHPF(n)))
        denominator == toHPF(n)
    IN  HDiv(numerator, denominator)

\* The quotient of covariance with sigma_x used in place of sigma_y.
covarianceQuotient_sumXTwice(sigma_xy, sigma_x, sigma_y, n) ==
    LET numerator == HSub(sigma_xy, HDiv(HMul(sigma_x, sigma_x), toHPF(n)))
        denominator == toHPF(n - 1)
    IN  HDiv(numerator, denominator)

\* numerator / denominator of covariance.
covarianceQuotient(sigma_xy, sigma_x, sigma_y, n) ==
    LET numerator == HSub(sigma_xy, HDiv(HMul(sigma_x, sigma_y), toHPF(n)))
        denominator == toHPF(n - 1)
    IN  HDiv(numerator, denominator)

\* covariance returning its own diagnostic when sumProduct fails.
covarianceRun_rediagnosed(range_x, range_y) ==
    LET sizeX == Len(range_x)
        sizeY == Len(range_y)
        check == covarianceSizeCheck(sizeX, sizeY)
    IN  IF check # <<>> THEN [ret |-> check[1], calls |-> <<>>]
        ELSE
        LET n == sizeX
            sigma_x == sum(range_x)
            sigma_y == sum(range_y)
            sigma_xy == sumProduct(range_x, range_y)
            calls1 == <<"sum", "sum", "sumProduct">>
        IN  IF ~sigma_xy.ok
            THEN [ret |-> Unexpected("covariance: sumProduct failed", <<>>),
                  calls |-> calls1]
            ELSE [ret |-> Expected(covarianceQuotient(sigma_xy.val, sigma_x, sigma_y, n)),
                  calls |-> calls1]

\* covariance: the value returned and the functions invoked.
covarianceRun(range_x, range_y) ==
    LET sizeX == Len(range_x)
        sizeY == Len(range_y)
        check == covarianceSizeCheck(sizeX, sizeY)
    IN  IF check # <<>> THEN [ret |-> check[1], calls |-> <<>>]
        ELSE
        LET n == sizeX
            sigma_x == sum(range_x)
            sigma_y == sum(range_y)
            sigma_xy == sumProduct(range_x, range_y)
            calls1 == <<"sum", "sum", "sumProduct">>
        IN  IF ~sigma_xy.ok THEN [ret |-> sigma_xy, calls |-> calls1]
            ELSE [ret |-> Expected(covarianceQuotient(sigma_xy.val, sigma_x, sigma_y, n)),
                  calls |-> calls1]

covariance(range_x, range_y) == covarianceRun(range_x, range_y).ret

---------------------------------------------------------------------------
\* The caller: two ranges, and one synchronous call after another.

Init ==
    /\ seqX \in Ranges
    /\ seqY \in Ranges
    /\ fn = "none"
    /\ args = <<>>
    /\ ret = <<>>
    /\ calls = <<>>
    /\ threads = <<>>

CallSum ==
    /\ fn = "none"
    /\ fn' = "sum"
    /\ ret' = sum(seqX)
    /\ calls' = <<>>
    /\ args' = <<>>
    /\ UNCHANGED <<seqX, seqY, threads>>

CallSumSquared ==
    /\ fn = "none"
    /\ fn' = "sumSquared"
    /\ ret' = sumSquared(seqX)
    /\ calls' = <<>>
    /\ args' = <<>>
    /\ UNCHANGED <<seqX, seqY, threads>>

CallAverage ==
    /\ fn = "none"
    /\ fn' = "average"
    /\ ret' = average(seqX)
    /\ calls' = <<>>
    /\ args' = <<>>
    /\ UNCHANGED <<seqX, seqY, threads>>

\* product leaving the caller's range empty.
CallProduct_consumesRange ==
    /\ fn = "none"
    /\ fn' = "product"
    /\ ret' = product(seqX)
    /\ calls' = <<>>
    /\ args' = <<>>
    /\ seqX' = <<>>
    /\ UNCHANGED <<seqY, threads>>

CallProduct ==
    /\ fn = "none"
    /\ fn' = "product"
    /\ ret' = product(seqX)
    /\ calls' = <<>>
    /\ args' = <<>>
    /\ UNCHANGED <<seqX, seqY, threads>>

CallGeometricMean ==
    /\ fn = "none"
    /\ fn' = "geometricMean"
    /\ ret' = geometricMean(seqX)
    /\ calls' = <<>>
    /\ args' = <<>>
    /\ UNCHANGED <<seqX, seqY, threads>>

CallSumProduct ==
    /\ fn = "none"
    /\ fn' = "sumProduct"
    /\ ret' = sumProduct(seqX, seqY)
    /\ calls' = <<>>
    /\ args' = <<>>
    /\ UNCHANGED <<seqX, seqY, threads>>

CallRawDeviationDenominatorPart ==
    \E s \in (0 - MaxArg)..MaxArg, q \in (0 - MaxArg)..MaxArg, n \in 0..MaxArg :
        /\ fn = "none"
        /\ fn' = "rawDeviationDenominatorPart"
        /\ args' = <<s, q, n>>
        /\ ret' = rawDeviationDenominatorPart(toHPF(s), toHPF(q), n)
        /\ calls' = <<>>
        /\ UNCHANGED <<seqX, seqY, threads>>

\* A direct call of the helper on the sums of the first range, the way
\* coefficientCorrelation calls it.
CallRawDeviationDenominatorPartOfRange ==
    /\ fn = "none"
    /\ fn' = "rawDeviationDenominatorPart"
    /\ args' = <<sum(seqX).num, sumSquared(seqX).num, Len(seqX)>>
    /\ ret' = rawDeviationDenominatorPart(sum(seqX), sumSquared(seqX), Len(seqX))
    /\ calls' = <<>>
    /\ UNCHANGED <<seqX, seqY, threads>>

CallCoefficientCorrelation ==
    LET run == coefficientCorrelationRun(seqX, seqY)
    IN  /\ fn = "none"
        /\ fn' = "coefficientCorrelation"
        /\ ret' = run.ret
        /\ calls' = run.calls
        /\ args' = <<>>
        /\ UNCHANGED <<seqX, seqY, threads>>

CallCovariance ==
    LET run == covarianceRun(seqX, seqY)
    IN  /\ fn = "none"
        /\ fn' = "covariance"
        /\ ret' = run.ret
        /\ calls' = run.calls
        /\ args' = <<>>
        /\ UNCHANGED <<seqX, seqY, threads>>

\* The caller takes the returned value and is ready for its next call.
Return ==
    /\ fn # "none"
    /\ fn' = "none"
    /\ args' = <<>>
    /\ ret' = <<>>
    /\ calls' = <<>>
    /\ UNCHANGED <<seqX, seqY, threads>>

Next ==
    \/ Return
    \/ CallSum
    \/ CallSumSquared
    \/ CallSumProduct
    \/ CallCoefficientCorrelation
    \/ CallCovariance
    \/ CallAverage
    \/ CallProduct
    \/ CallGeometricMean
    \/ CallRawDeviationDenominatorPartOfRange

Spec == Init /\ [][Next]_vars

\* The functions of one range, called on a range of larger elements.
InitUnary ==
    /\ seqX \in WideRanges
    /\ seqY = <<>>
    /\ fn = "none"
    /\ args = <<>>
    /\ ret = <<>>
    /\ calls = <<>>
    /\ threads = <<>>

NextUnary ==
    \/ Return
    \/ CallSum
    \/ CallAverage
    \/ CallProduct
    \/ CallGeometricMean
    \/ CallSumSquared

SpecUnary == InitUnary /\ [][NextUnary]_vars

\* Direct calls of the denominator helper, which takes no range.
InitHelper ==
    /\ seqX = <<>>
    /\ seqY = <<>>
    /\ fn = "none"
    /\ args = <<>>
    /\ ret = <<>>
    /\ calls = <<>>
    /\ threads = <<>>

NextHelper == CallRawDeviationDenominatorPart \/ Return

SpecHelper == InitHelper /\ [][NextHelper]_vars

\* A caller whose two ranges are two columns of one table: they have the
\* same length.
InitPaired ==
    /\ seqX \in Ranges
    /\ seqY \in Ranges
    /\ Len(seqY) = Len(seqX)
    /\ fn = "none"
    /\ args = <<>>
    /\ ret = <<>>
    /\ calls = <<>>
    /\ threads = <<>>

NextPaired ==
    \/ Return
    \/ CallSum
    \/ CallSumSquared
    \/ CallProduct
    \/ CallAverage
    \/ CallGeometricMean
    \/ CallSumProduct
    \/ CallCovariance
    \/ CallCoefficientCorrelation

SpecPaired == InitPaired /\ [][NextPaired]_vars

---------------------------------------------------------------------------
\* Concurrent callers.  Each thread runs one call at a time over the two
\* shared ranges; a call is a frame of its own locals that advances one
\* statement at a time, so the statements of different threads interleave.

\* Longest range the concurrent callers share.
MaxThreadLen == 2

Threads == {1, 2}
ThreadVals == {0 - 1, 1}
ThreadRanges == UNION {[1..k -> ThreadVals] : k \in 0..MaxThreadLen}

\* The locals of a frame before any of them is assigned.
NoLocals ==
    [total |-> HZero,
     sigma_x |-> HZero, sigma_y |-> HZero,
     sigma_x2 |-> HZero, sigma_y2 |-> HZero,
     sigma_xy |-> Expected(HZero),
     denominator_x |-> Expected(HZero),
     denominator_y |-> Expected(HZero)]

\* A thread that is not inside the library.
Idle ==
    [fn |-> "none", pc |-> "idle", swap |-> FALSE,
     loc |-> NoLocals, reads |-> 0, ret |-> <<>>]

\* The frame of a call of f at its first statement; reads counts the
\* elements of the two ranges the call has consumed.
Enter(f, swap) ==
    [fn |-> f, pc |-> "sizes", swap |-> swap,
     loc |-> NoLocals, reads |-> 0, ret |-> <<>>]

Goto(frame, pc) == [frame EXCEPT !.pc = pc]
Finish(frame, r) == [frame EXCEPT !.pc = "done", !.ret = r]
Assign(frame, name, v, consumed, pc) ==
    [frame EXCEPT !.loc[name] = v, !.reads = @ + consumed, !.pc = pc]

\* sumProduct that pairs the elements up before it compares the lengths.
sumProductStep_pairsFirst(frame, rangeX, rangeY) ==
    LET shorter == IF Len(rangeX) < Len(rangeY) THEN Len(rangeX) ELSE Len(rangeY)
    IN
    CASE frame.pc = "sizes" ->
            IF Len(rangeX) # Len(rangeY)
            THEN Finish([frame EXCEPT !.reads = @ + 2 * shorter],
                        Unexpected("rangeX.size() = {} != rangeY.size() = {}",
                                   <<toHPF(Len(rangeX)), toHPF(Len(rangeY))>>))
            ELSE Goto(frame, "empty")
      [] frame.pc = "empty" ->
            IF Len(rangeX) = 0
            THEN Finish(frame, Unexpected("rangeX is empty!", <<>>))
            ELSE Goto(frame, "transform_reduce")
      [] frame.pc = "transform_reduce" ->
            Assign(frame, "total", transform_reduce(rangeX, rangeY, 1, HZero),
                   2 * Len(rangeX), "negative")
      [] frame.pc = "negative" ->
            IF HNegative(frame.loc.total)
            THEN Finish(frame, Unexpected("total {} is negative!", <<frame.loc.total>>))
            ELSE Finish(frame, Expected(frame.loc.total))

\* One statement of sumProduct.
sumProductStep(frame, rangeX, rangeY) ==
    CASE frame.pc = "sizes" ->
            IF Len(rangeX) # Len(rangeY)
            THEN Finish(frame,
                        Unexpected("rangeX.size() = {} != rangeY.size() = {}",
                                   <<toHPF(Len(rangeX)), toHPF(Len(rangeY))>>))
            ELSE Goto(frame, "empty")
      [] frame.pc = "empty" ->
            IF Len(rangeX) = 0
            THEN Finish(frame, Unexpected("rangeX is empty!", <<>>))
            ELSE Goto(frame, "transform_reduce")
      [] frame.pc = "transform_reduce" ->
            Assign(frame, "total", transform_reduce(rangeX, rangeY, 1, HZero),
                   2 * Len(rangeX), "negative")
      [] frame.pc = "negative" ->
            IF HNegative(frame.loc.total)
            THEN Finish(frame, Unexpected("total {} is negative!", <<frame.loc.total>>))
            ELSE Finish(frame, Expected(frame.loc.total))

\* A whole call of sumProduct made from inside another call.
RECURSIVE sumProductCall(_, _, _)
sumProductCall(frame, rangeX, rangeY) ==
    IF frame.pc = "done" THEN frame
    ELSE sumProductCall(sumProductStep(frame, rangeX, rangeY), rangeX, rangeY)

\* One statement of covariance.
covarianceStep(frame, range_x, range_y) ==
    LET sizeX == Len(range_x)
        sizeY == Len(range_y)
        n == sizeX
    IN
    CASE frame.pc = "sizes" ->
            LET check == covarianceSizeCheck(sizeX, sizeY)
            IN  IF check # <<>> THEN Finish(frame, check[1])
                ELSE Goto(frame, "sigma_x")
      [] frame.pc = "sigma_x" ->
            Assign(frame, "sigma_x", sum(range_x), Len(range_x), "sigma_y")
      [] frame.pc = "sigma_y" ->
            Assign(frame, "sigma_y", sum(range_y), Len(range_y), "sigma_xy")
      [] frame.pc = "sigma_xy" ->
            LET callee == sumProductCall(Enter("sumProduct", FALSE), range_x, range_y)
            IN  IF ~callee.ret.ok
                THEN Finish([frame EXCEPT !.reads = @ + callee.reads], callee.ret)
                ELSE Assign(frame, "sigma_xy", callee.ret, callee.reads, "quotient")
      [] frame.pc = "quotient" ->
            Finish(frame,
                   Expected(covarianceQuotient(frame.loc.sigma_xy.val,
                                               frame.loc.sigma_x,
                                               frame.loc.sigma_y, n)))

\* One statement of coefficientCorrelation.
coefficientCorrelationStep(frame, range_x, range_y) ==
    LET sizeX == Len(range_x)
        sizeY == Len(range_y)
        n == toHPF(Len(range_x))
        loc == frame.loc
    IN
    CASE frame.pc = "sizes" ->
            LET check == coefficientCorrelationSizeCheck(sizeX, sizeY)
            IN  IF check # <<>> THEN Finish(frame, check[1])
                ELSE Goto(frame, "sigma_x")
      [] frame.pc = "sigma_x" ->
            Assign(frame, "sigma_x", sum(range_x), Len(range_x), "sigma_y")
      [] frame.pc = "sigma_y" ->
            Assign(frame, "sigma_y", sum(range_y), Len(range_y), "sigma_x2")
      [] frame.pc = "sigma_x2" ->
            Assign(frame, "sigma_x2", sumSquared(range_x), Len(range_x), "sigma_y2")
      [] frame.pc = "sigma_y2" ->
            Assign(frame, "sigma_y2", sumSquared(range_y), Len(range_y), "sigma_xy")
      [] frame.pc = "sigma_xy" ->
            LET callee == sumProductCall(Enter("sumProduct", FALSE), range_x, range_y)
            IN  IF ~callee.ret.ok
                THEN Finish([frame EXCEPT !.reads = @ + callee.reads], callee.ret)
                ELSE Assign(frame, "sigma_xy", callee.ret, callee.reads, "denominator_x")
      [] frame.pc = "denominator_x" ->
            LET denominator_x == rawDeviationDenominatorPart(loc.sigma_x, loc.sigma_x2,
                                                             ToSize(n))
            IN  IF ~denominator_x.ok THEN Finish(frame, denominator_x)
                ELSE Assign(frame, "denominator_x", denominator_x, 0, "denominator_y")
      [] frame.pc = "denominator_y" ->
            LET denominator_y == rawDeviationDenominatorPart(loc.sigma_y, loc.sigma_y2,
                                                             ToSize(n))
            IN  IF ~denominator_y.ok THEN Finish(frame, denominator_y)
                ELSE Assign(frame, "denominator_y", denominator_y, 0, "denominator")
      [] frame.pc = "denominator" ->
            LET numerator == coefficientCorrelationNumerator(n, loc.sigma_xy.val,
                                                             loc.sigma_x, loc.sigma_y)
                denominator == HMul(loc.denominator_x.val, loc.denominator_y.val)
            IN  IF denominator = HZero
                THEN Finish(frame, Unexpected("denominator is zero?", <<>>))
                ELSE Finish(frame, Expected(HDiv(numerator, denominator)))

Step(frame, range_x, range_y) ==
    CASE frame.fn = "sumProduct" -> sumProductStep(frame, range_x, range_y)
      [] frame.fn = "covariance" -> covarianceStep(frame, range_x, range_y)
      [] frame.fn = "coefficientCorrelation" ->
            coefficientCorrelationStep(frame, range_x, range_y)

\* The ranges thread t passed: the caller's two ranges, in either order.
ThreadX(t) == IF threads[t].swap THEN seqY ELSE seqX
ThreadY(t) == IF threads[t].swap THEN seqX ELSE seqY

InitThreads ==
    /\ seqX \in ThreadRanges
    /\ seqY \in ThreadRanges
    /\ fn = "none"
    /\ args = <<>>
    /\ ret = <<>>
    /\ calls = <<>>
    /\ threads = [t \in Threads |-> Idle]

ThreadCall(t) ==
    \E f \in {"sumProduct", "covariance", "coefficientCorrelation"}, swap \in BOOLEAN :
        /\ threads[t].pc = "idle"
        /\ threads' = [threads EXCEPT ![t] = Enter(f, swap)]
        /\ UNCHANGED <<seqX, seqY, fn, args, ret, calls>>

\* A step whose frame keeps its locals in static storage, one copy for all
\* threads (held in the frame of thread 1).
ThreadStep_staticLocals(t) ==
    LET shared == [threads[t] EXCEPT !.loc = threads[1].loc]
        after == Step(shared, ThreadX(t), ThreadY(t))
    IN  /\ threads[t].pc \notin {"idle", "done"}
        /\ threads' = [[threads EXCEPT ![t] = after] EXCEPT ![1].loc = after.loc]
        /\ UNCHANGED <<seqX, seqY, fn, args, ret, calls>>

ThreadStep(t) ==
    /\ threads[t].pc \notin {"idle", "done"}
    /\ threads' = [threads EXCEPT ![t] = Step(threads[t], ThreadX(t), ThreadY(t))]
    /\ UNCHANGED <<seqX, seqY, fn, args, ret, calls>>

ThreadReturn(t) ==
    /\ threads[t].pc = "done"
    /\ threads' = [threads EXCEPT ![t] = Idle]
    /\ UNCHANGED <<seqX, seqY, fn, args, ret, calls>>

NextThreads ==
    \E t \in Threads :
        \/ ThreadCall(t)
        \/ ThreadStep(t)
        \/ ThreadReturn(t)

SpecThreads == InitThreads /\ [][NextThreads]_vars

---------------------------------------------------------------------------
\* Vocabulary of the properties: the sums as plain integer arithmetic on
\* the caller's ranges, and the kind of a failure.

RECURSIVE SigmaTo(_, _)
SigmaTo(f, k) == IF k = 0 THEN 0 ELSE SigmaTo(f, k - 1) + f[k]

Sigma(s) == SigmaTo(s, Len(s))
SigmaProd(s, t) == SigmaTo([i \in 1..Len(s) |-> s[i] * t[i]], Len(s))

\* n*Sxy - Sx*Sy and n*Sxx - Sx^2 of ranges of common length n.
RawNumerator(s, t) == Len(s) * SigmaProd(s, t) - Sigma(s) * Sigma(t)
RawRadicand(s) == Len(s) * SigmaProd(s, s) - Sigma(s) * Sigma(s)

IsConstant(s) == \A i, j \in 1..Len(s) : s[i] = s[j]

\* a*s + b, element by element.
Affine(s, a, b) == [i \in 1..Len(s) |-> a * s[i] + b]

\* The kind of a failure, from its diagnostic.
Kind(r) ==
    LET f == r.error.fmt
    IN  CASE f \in {"rangeX.size() = {} != rangeY.size() = {}",
                    "sizeX={} != sizeY()={}",
                    "sizeX={} != sizeY={}"} -> "ShapeMismatch"
          [] f = "rangeX is empty!" -> "EmptyInput"
          [] f = "not enough data points: n={}" -> "InsufficientData"
          [] f = "{} * {} - {}^2={}" -> "NegativeRadicand"
          [] f = "denominator is zero?" -> "DegenerateVariance"
          [] OTHER -> "Other"

Taxonomy == {"ShapeMismatch", "EmptyInput", "InsufficientData",
             "NegativeRadicand", "DegenerateVariance"}

Fails(kind) == ~ret.ok /\ Kind(ret) = kind

SameLength == Len(seqX) = Len(seqY)

\* Scales and shifts tried on the first range.
MaxScale == 2
MaxShift == 1

---------------------------------------------------------------------------
\* C1: for every pair of equal-length, non-empty ranges, sumProduct
\* succeeds and its value is exactly the dot product.
C1_SumProductIsDotProduct ==
    (fn = "sumProduct" /\ SameLength /\ Len(seqX) >= 1)
        => (ret.ok /\ ret.val = toHPF(SigmaProd(seqX, seqY)))

\* C2: whenever coefficientCorrelation succeeds, its value r has the sign
\* of n*Sxy - Sx*Sy and r^2 * (n*Sxx - Sx^2) * (n*Syy - Sy^2) equals
\* (n*Sxy - Sx*Sy)^2.
C2_CorrelationIsRawScorePearson ==
    (fn = "coefficientCorrelation" /\ ret.ok)
        => LET r == ret.val
               N == RawNumerator(seqX, seqY)
               A == RawRadicand(seqX)
               B == RawRadicand(seqY)
           IN  /\ r.den > 0
               /\ Sgn(r.num) = Sgn(N)
               /\ r.num * r.num * r.rad * A * B = N * N * r.den * r.den

\* A successful correlation with an irrational value: both square roots
\* and the division have acted.
C2_Witness ==
    /\ fn = "coefficientCorrelation"
    /\ ret.ok
    /\ ret.val.rad > 1
    /\ ret.val.den > 1

\* C3: whenever covariance succeeds the common length n is at least 2 and
\* value * n * (n - 1) = n*Sxy - Sx*Sy.
C3_CovarianceIsBesselSample ==
    (fn = "covariance" /\ ret.ok)
        => LET n == Len(seqX)
           IN  /\ SameLength
               /\ n >= 2
               /\ HMul(ret.val, toHPF(n * (n - 1))) = toHPF(RawNumerator(seqX, seqY))

\* A successful covariance of three points with a negative, fractional value.
C3_Witness ==
    /\ fn = "covariance"
    /\ ret.ok
    /\ Len(seqX) = 3
    /\ ret.val.num < 0
    /\ ret.val.den > 1

\* C4: for every pair of non-constant ranges of common length n >= 2,
\* every scale a > 0 and every shift b, coefficientCorrelation(a*x + b, y)
\* and coefficientCorrelation(x, y) both succeed with the same value.
C4_CorrelationScaleShiftInvariant ==
    (/\ fn = "coefficientCorrelation"
     /\ SameLength
     /\ Len(seqX) >= 2
     /\ ~IsConstant(seqX)
     /\ ~IsConstant(seqY))
        => /\ ret.ok
           /\ \A a \in 1..MaxScale, b \in (0 - MaxShift)..MaxShift :
                  coefficientCorrelation(Affine(seqX, a, b), seqY) = ret

\* C5: every failure of sumProduct, covariance or coefficientCorrelation is
\* of one of the five kinds of the taxonomy.
C5_FailuresAreInTaxonomy ==
    (fn \in {"sumProduct", "covariance", "coefficientCorrelation"} /\ ~ret.ok)
        => Kind(ret) \in Taxonomy

\* C6: coefficientCorrelation fails with DegenerateVariance whenever the
\* ranges have a common length n >= 2 and at least one of them is constant.
C6_ConstantRangeIsDegenerate ==
    (/\ fn = "coefficientCorrelation"
     /\ SameLength
     /\ Len(seqX) >= 2
     /\ (IsConstant(seqX) \/ IsConstant(seqY)))
        => Fails("DegenerateVariance")

\* C7: sumProduct fails with ShapeMismatch, naming both lengths, whenever
\* the lengths differ (also when exactly one range is empty), and fails with
\* EmptyInput exactly when both ranges are empty.
C7_SumProductShapeThenEmpty ==
    fn = "sumProduct"
        => /\ ~SameLength
               => /\ Fails("ShapeMismatch")
                  /\ ret.error.args = <<toHPF(Len(seqX)), toHPF(Len(seqY))>>
           /\ (~ret.ok /\ Kind(ret) = "EmptyInput")
               <=> (Len(seqX) = 0 /\ Len(seqY) = 0)

\* sumProduct of an empty and a non-empty range has failed with ShapeMismatch.
C7_Witness ==
    /\ fn = "sumProduct"
    /\ Len(seqX) = 0
    /\ Len(seqY) > 0
    /\ Fails("ShapeMismatch")

\* C8: covariance fails with ShapeMismatch whenever the lengths differ
\* (also when one of them is 0 or 1) and with InsufficientData whenever the
\* common length is 0 or 1, whatever the elements, without calling anything.
C8_CovarianceValidationOrder ==
    fn = "covariance"
        => /\ ~SameLength => (Fails("ShapeMismatch") /\ calls = <<>>)
           /\ (SameLength /\ Len(seqX) < 2)
               => (Fails("InsufficientData") /\ calls = <<>>)
           /\ (SameLength /\ Len(seqX) >= 2)
               => (ret.ok \/ Kind(ret) \notin {"ShapeMismatch", "InsufficientData"})

\* covariance of ranges of lengths 1 and 0 has failed with ShapeMismatch.
C8_Witness ==
    /\ fn = "covariance"
    /\ Len(seqX) = 1
    /\ Len(seqY) = 0
    /\ Fails("ShapeMismatch")

\* C9: coefficientCorrelation fails with ShapeMismatch whenever the lengths
\* differ and with InsufficientData whenever the common length is below 2,
\* whatever the elements and before any sum is computed.
C9_CorrelationValidationOrder ==
    fn = "coefficientCorrelation"
        => /\ ~SameLength => (Fails("ShapeMismatch") /\ calls = <<>>)
           /\ (SameLength /\ Len(seqX) < 2)
               => (Fails("InsufficientData") /\ calls = <<>>)
           /\ (SameLength /\ Len(seqX) >= 2)
               => (/\ calls # <<>>
                   /\ ret.ok \/ Kind(ret) \notin {"ShapeMismatch", "InsufficientData"})

\* coefficientCorrelation of two one-element ranges has failed with
\* InsufficientData.
C9_Witness ==
    /\ fn = "coefficientCorrelation"
    /\ Len(seqX) = 1
    /\ Len(seqY) = 1
    /\ Fails("InsufficientData")

\* C10: every successful coefficientCorrelation value lies in [-1, 1].
C10_CorrelationInUnitInterval ==
    (fn = "coefficientCorrelation" /\ ret.ok)
        => LET r == ret.val
           IN  /\ r.den > 0
               /\ r.num * r.num * r.rad <= r.den * r.den

\* A successful correlation that attains the bound -1.
C10_Witness ==
    /\ fn = "coefficientCorrelation"
    /\ ret.ok
    /\ ret.val = toHPF(0 - 1)


\* Two results are the same outcome: both values, and equal, or both
\* failures of the same kind.
SameOutcome(r1, r2) ==
    \/ r1.ok /\ r2.ok /\ r1.val = r2.val
    \/ ~r1.ok /\ ~r2.ok /\ Kind(r1) = Kind(r2)

\* C11: coefficientCorrelation(x, y) and coefficientCorrelation(y, x) both
\* fail with the same kind of failure or both succeed with the same value.
C11_CorrelationSymmetric ==
    fn = "coefficientCorrelation"
        => SameOutcome(ret, coefficientCorrelation(seqY, seqX))

\* A successful correlation of two different ranges whose sums differ.
C11_Witness ==
    /\ fn = "coefficientCorrelation"
    /\ ret.ok
    /\ Sigma(seqX) # Sigma(seqY)
    /\ ret.val.num # 0
    /\ ret.val.den > 1

\* C12: covariance(x, y) and covariance(y, x) have the same outcome, and
\* the same value when they succeed.
C12_CovarianceSymmetric ==
    fn = "covariance"
        => SameOutcome(ret, covariance(seqY, seqX))

\* A successful non-zero covariance of two ranges whose sums differ.
C12_Witness ==
    /\ fn = "covariance"
    /\ ret.ok
    /\ Sigma(seqX) # Sigma(seqY)
    /\ ret.val.num # 0


\* The last call invoked the function named f.
Invoked(f) == \E i \in 1..Len(calls) : calls[i] = f

ArgsRadicand == args[3] * args[2] - args[1] * args[1]

\* C14: rawDeviationDenominatorPart(sum, sumSquared, n) fails, with
\* NegativeRadicand, if and only if n*sumSquared - sum^2 < 0; otherwise it
\* succeeds with a non-negative value whose square is n*sumSquared - sum^2.
C14_HelperFailsIffNegativeRadicand ==
    fn = "rawDeviationDenominatorPart"
        => /\ ~ret.ok <=> ArgsRadicand < 0
           /\ ~ret.ok => Kind(ret) = "NegativeRadicand"
           /\ ret.ok => /\ ret.val.num >= 0
                        /\ ret.val.den > 0
                        /\ HMul(ret.val, ret.val) = toHPF(ArgsRadicand)

\* A direct call with a positive sum of squares and a negative radicand
\* has failed.
C14_Witness ==
    /\ fn = "rawDeviationDenominatorPart"
    /\ args[2] > 0
    /\ args[3] > 0
    /\ ArgsRadicand < 0
    /\ Fails("NegativeRadicand")


RECURSIVE PiTo(_, _)
PiTo(f, k) == IF k = 0 THEN 1 ELSE PiTo(f, k - 1) * f[k]

\* The product of the elements of s, as plain integer arithmetic.
Pi(s) == PiTo(s, Len(s))

\* C15: product of the empty range is 1, not 0, and product of a non-empty
\* range is the product of its elements; product([1,2,3,4,5]) = 120 and
\* product([10,1,1000,1,10]) = 100000.
C15_ProductIsRunningProduct ==
    fn = "product"
        => /\ ret = toHPF(Pi(seqX))
           /\ seqX = <<>> => (ret = toHPF(1) /\ ret # HZero)
           /\ product(<<1, 2, 3, 4, 5>>) = toHPF(120)
           /\ product(<<10, 1, 1000, 1, 10>>) = toHPF(100000)

\* product of three elements has returned a negative value of magnitude
\* above 1.
C15_Witness ==
    /\ fn = "product"
    /\ Len(seqX) = 3
    /\ ret.num < 0 - 1

\* C16: sum returns a value and no failure: 0 for the empty range and
\* otherwise exactly the sum of the elements.
C16_SumIsExactTotal ==
    fn = "sum"
        => /\ ret = toHPF(Sigma(seqX))
           /\ seqX = <<>> => ret = HZero

\* sum of three elements of mixed sign has returned a non-zero value.
C16_Witness ==
    /\ fn = "sum"
    /\ Len(seqX) = 3
    /\ \E i, j \in 1..3 : seqX[i] < 0 /\ seqX[j] > 0
    /\ ret # HZero

\* C17: average returns 0 for the empty range and otherwise a value with
\* average * length = sum of the elements.
C17_AverageIsSumOverLength ==
    fn = "average"
        => /\ seqX = <<>> => ret = HZero
           /\ seqX # <<>>
               => /\ ret.den > 0
                  /\ HMul(ret, toHPF(Len(seqX))) = toHPF(Sigma(seqX))

\* average of three elements has returned a fraction.
C17_Witness ==
    /\ fn = "average"
    /\ Len(seqX) = 3
    /\ ret.den = 3

AllPositive(s) == \A i \in 1..Len(s) : s[i] > 0

\* C18: geometricMean returns 0 for the empty range, whose product is 1,
\* and for a non-empty range of positive elements a positive value g with
\* g^length = product of the elements.
C18_GeometricMeanIsRootOfProduct ==
    fn = "geometricMean"
        => /\ seqX = <<>> => (ret = RootZero /\ product(seqX) = toHPF(1))
           /\ (seqX # <<>> /\ AllPositive(seqX))
               => LET n == Len(seqX)
                  IN  /\ ret.num > 0
                      /\ ret.den > 0
                      /\ n % ret.idx = 0
                      /\ IntPow(ret.num, n \div ret.idx)
                             = Pi(seqX) * IntPow(ret.den, n \div ret.idx)

\* geometricMean of three positive elements has returned an irrational
\* cube root.
C18_Witness ==
    /\ fn = "geometricMean"
    /\ Len(seqX) = 3
    /\ AllPositive(seqX)
    /\ ret.idx = 3

\* C19: sumSquared returns a value and no failure: 0 for the empty range
\* and otherwise the sum of the squares of the elements, never negative.
C19_SumSquaredIsSumOfSquares ==
    fn = "sumSquared"
        => /\ ret = toHPF(SigmaProd(seqX, seqX))
           /\ ret.num >= 0
           /\ seqX = <<>> => ret = HZero

\* sumSquared of a range with a negative element has returned a positive
\* value.
C19_Witness ==
    /\ fn = "sumSquared"
    /\ \E i \in 1..Len(seqX) : seqX[i] < 0 - 1
    /\ ret.num > 0


\* C20: no call of sum, sumSquared, product, average, geometricMean,
\* sumProduct, rawDeviationDenominatorPart, covariance or
\* coefficientCorrelation, successful or failing, changes an element of
\* either range of the caller.
C20_RangesAreNeverMutated == [][seqX' = seqX /\ seqY' = seqY]_vars

\* A failing call has returned, on two ranges of three elements that are
\* not in ascending order.
C20_Witness ==
    /\ fn = "covariance"
    /\ ~ret.ok
    /\ Len(seqX) = 3
    /\ Len(seqY) = 3
    /\ seqX[1] > seqX[2]
    /\ seqY[2] > seqY[3]


---------------------------------------------------------------------------
\* Concurrency and order of steps.

\* What the call in a frame returns when it runs alone on its ranges.
Alone(f, range_x, range_y) ==
    CASE f = "sumProduct" -> sumProduct(range_x, range_y)
      [] f = "covariance" -> covariance(range_x, range_y)
      [] f = "coefficientCorrelation" -> coefficientCorrelation(range_x, range_y)

\* C21: however the statements of the threads' calls interleave over the
\* shared, unmutated ranges, every finished call of sumProduct, covariance
\* or coefficientCorrelation holds the result the same call gives when run
\* alone on its arguments, whatever calls came before or run beside it.
C21_ConcurrentCallsAreTransparent ==
    \A t \in Threads :
        threads[t].pc = "done"
            => threads[t].ret = Alone(threads[t].fn, ThreadX(t), ThreadY(t))

\* Two calls that ran side by side have both finished with a value:
\* coefficientCorrelation on one thread, covariance of the same two ranges
\* in the opposite order on the other.
C21_Witness ==
    /\ threads[1].pc = "done"
    /\ threads[2].pc = "done"
    /\ threads[1].fn = "coefficientCorrelation"
    /\ threads[2].fn = "covariance"
    /\ threads[1].swap # threads[2].swap
    /\ threads[1].ret.ok
    /\ threads[2].ret.ok
    /\ threads[1].reads > 0
    /\ threads[2].reads > 0


\* C22: in sumProduct, covariance and coefficientCorrelation no element of
\* either range is consumed before the lengths have been compared: a call
\* on ranges of different lengths has consumed no element at any point of
\* its run, and it ends in the length-mismatch failure.
C22_LengthCheckPrecedesReads ==
    \A t \in Threads :
        Len(ThreadX(t)) # Len(ThreadY(t))
            => /\ threads[t].reads = 0
               /\ threads[t].pc = "done"
                    => /\ ~threads[t].ret.ok
                       /\ Kind(threads[t].ret) = "ShapeMismatch"

\* A sumProduct call and a coefficientCorrelation call on ranges of
\* different lengths have both returned, the longer range non-empty.
C22_Witness ==
    /\ Len(seqX) # Len(seqY)
    /\ Len(seqX) >= 1
    /\ Len(seqY) >= 1
    /\ threads[1].pc = "done"
    /\ threads[1].fn = "sumProduct"
    /\ threads[2].pc = "done"
    /\ threads[2].fn = "coefficientCorrelation"


\* How many times the last call invoked f.
Invocations(f) == Cardinality({i \in 1..Len(calls) : calls[i] = f})

---------------------------------------------------------------------------
\* Reachability of failures, and relations between the functions.

\* C24: for every integer range s of length n >= 1, n*sumSquared(s) -
\* sum(s)^2 >= 0, so rawDeviationDenominatorPart succeeds on the sums of a
\* range; both calls coefficientCorrelation makes of it succeed, and
\* coefficientCorrelation never returns the negative-radicand failure.
C24_NegativeRadicandUnreachable ==
    /\ (fn = "rawDeviationDenominatorPart" /\ Len(seqX) >= 1)
        => /\ RawRadicand(seqX) >= 0
           /\ HSub(HMul(toHPF(Len(seqX)), sumSquared(seqX)),
                   HMul(sum(seqX), sum(seqX))) = toHPF(RawRadicand(seqX))
           /\ ret.ok
    /\ fn = "coefficientCorrelation"
        => /\ ~Fails("NegativeRadicand")
           /\ Invoked("rawDeviationDenominatorPart")
                => /\ Invocations("rawDeviationDenominatorPart") = 2
                   /\ rawDeviationDenominatorPart(sum(seqX), sumSquared(seqX), Len(seqX)).ok
                   /\ rawDeviationDenominatorPart(sum(seqY), sumSquared(seqY), Len(seqY)).ok

\* coefficientCorrelation has computed both denominator factors, on two
\* ranges of three elements of which the second is constant.
C24_Witness ==
    /\ fn = "coefficientCorrelation"
    /\ Invocations("rawDeviationDenominatorPart") = 2
    /\ Len(seqX) = 3
    /\ ~IsConstant(seqX)
    /\ IsConstant(seqY)
    /\ seqY[1] # 0


\* The failure sumProduct returns for a negative total.
NegativeTotal(s, t) == Unexpected("total {} is negative!", <<toHPF(SigmaProd(s, t))>>)

\* C25: on ranges of equal length whose dot product is negative, sumProduct
\* returns the failure that says the total is negative, and for n >= 2
\* covariance and coefficientCorrelation return that same failure; this
\* includes every coefficientCorrelation(x, -x) with x not all zero.
C25_NegativeDotProductFails ==
    (fn # "none" /\ SameLength /\ Len(seqX) >= 1 /\ SigmaProd(seqX, seqY) < 0)
        => /\ fn = "sumProduct" => ret = NegativeTotal(seqX, seqY)
           /\ (fn \in {"covariance", "coefficientCorrelation"} /\ Len(seqX) >= 2)
                => /\ ret = NegativeTotal(seqX, seqY)
                   /\ Invoked("sumProduct")

\* coefficientCorrelation(x, -x) has returned, for a non-constant x of
\* three elements.
C25_Witness ==
    /\ fn = "coefficientCorrelation"
    /\ Len(seqX) = 3
    /\ seqY = Affine(seqX, 0 - 1, 0)
    /\ ~IsConstant(seqX)
    /\ ~ret.ok


\* C26: covariance and coefficientCorrelation reject ranges of different
\* lengths and fewer than two points before they call sumProduct, so
\* neither ever returns the length-mismatch or the empty-input failure of
\* sumProduct; two empty ranges give the not-enough-data failure; and
\* sumProduct is invoked by them only on ranges of equal length >= 2.
C26_SumProductGuardsUnreachable ==
    fn \in {"covariance", "coefficientCorrelation"}
        => /\ ~ret.ok
                => /\ ret.error.fmt # "rangeX.size() = {} != rangeY.size() = {}"
                   /\ ret.error.fmt # "rangeX is empty!"
                   /\ Kind(ret) # "EmptyInput"
           /\ (seqX = <<>> /\ seqY = <<>>) => Fails("InsufficientData")
           /\ Invoked("sumProduct") <=> (SameLength /\ Len(seqX) >= 2)
           /\ Invoked("sumProduct")
                => LET sigma_xy == sumProduct(seqX, seqY)
                   IN  sigma_xy.ok \/ Kind(sigma_xy) \notin {"ShapeMismatch", "EmptyInput"}

\* covariance has returned on two empty ranges.
C26_Witness ==
    /\ fn = "covariance"
    /\ seqX = <<>>
    /\ seqY = <<>>
    /\ ~ret.ok
    /\ ~Invoked("sumProduct")


\* A value that is a number: neither an infinity nor a NaN.
IsFinite(v) == v.den > 0

\* C27 as stated: no function divides by zero, and so every value returned
\* by average and geometricMean, and every success value of covariance and
\* coefficientCorrelation, is a finite number.
C27_EveryValueIsFinite ==
    /\ fn \in {"average", "geometricMean"} => IsFinite(ret)
    /\ (fn \in {"covariance", "coefficientCorrelation"} /\ ret.ok) => IsFinite(ret.val)

\* C27, amended: no function divides by zero.  average and geometricMean
\* return 0 for an empty range without dividing and otherwise divide by a
\* length >= 1; covariance succeeds only for n >= 2, where n and n - 1 are
\* not zero; coefficientCorrelation succeeds only when the product of its
\* denominator factors is not zero.  The values of average and the success
\* values of covariance and coefficientCorrelation are finite;
\* geometricMean is finite exactly when the range has at most one element
\* or its product is not negative, and a NaN otherwise.
C27_NoDivisionByZero ==
    /\ fn = "average"
        => /\ IsFinite(ret)
           /\ Len(seqX) = 0 => ret = HZero
           /\ Len(seqX) >= 1 => ret = HDiv(sum(seqX), toHPF(Len(seqX)))
    /\ fn = "geometricMean"
        => /\ Len(seqX) = 0 => ret = RootZero
           /\ Len(seqX) >= 1 => IsFinite(HDiv(toHPF(1), toHPF(Len(seqX))))
           /\ IsFinite(ret) <=> (Len(seqX) <= 1 \/ product(seqX).num >= 0)
           /\ ~IsFinite(ret) => ret = RootNaN
    /\ (fn = "covariance" /\ ret.ok)
        => /\ Len(seqX) >= 2
           /\ IsFinite(ret.val)
    /\ (fn = "coefficientCorrelation" /\ ret.ok)
        => /\ HMul(rawDeviationDenominatorPart(sum(seqX), sumSquared(seqX), Len(seqX)).val,
                   rawDeviationDenominatorPart(sum(seqY), sumSquared(seqY), Len(seqY)).val)
                # HZero
           /\ IsFinite(ret.val)

\* geometricMean has returned on a range of two elements whose product is
\* negative.
C27_Witness ==
    /\ fn = "geometricMean"
    /\ Len(seqX) = 2
    /\ product(seqX).num < 0
    /\ ret = RootNaN


\* C28: for every non-constant range x of n >= 2 elements,
\* coefficientCorrelation(x, x) succeeds with the value exactly 1, its
\* numerator being the product of the two equal denominator factors, and
\* covariance(x, x) succeeds with a value >= 0.
C28_SelfCorrelationIsOne ==
    (fn # "none" /\ seqY = seqX /\ Len(seqX) >= 2 /\ ~IsConstant(seqX))
        => /\ fn = "coefficientCorrelation"
                => LET denominator_x == rawDeviationDenominatorPart(sum(seqX), sumSquared(seqX),
                                                                    Len(seqX))
                   IN  /\ ret = Expected(toHPF(1))
                       /\ coefficientCorrelationNumerator(toHPF(Len(seqX)), sumProduct(seqX, seqX).val,
                                                          sum(seqX), sum(seqX))
                            = HMul(denominator_x.val, denominator_x.val)
           /\ fn = "covariance"
                => /\ ret.ok
                   /\ IsFinite(ret.val)
                   /\ ret.val.num >= 0

\* coefficientCorrelation(x, x) has returned for a non-constant x of three
\* elements whose sum is not zero.
C28_Witness ==
    /\ fn = "coefficientCorrelation"
    /\ seqY = seqX
    /\ Len(seqX) = 3
    /\ ~IsConstant(seqX)
    /\ Sigma(seqX) # 0
    /\ ret.ok


\* C29: whenever coefficientCorrelation(x, y) succeeds, covariance(x, y)
\* succeeds as well, neither range is constant, and the two values have the
\* same sign: both zero, both positive or both negative, the sign of
\* n*Sxy - Sx*Sy.
C29_CovarianceAgreesWithCorrelation ==
    (fn = "coefficientCorrelation" /\ ret.ok)
        => LET cov == covariance(seqX, seqY)
           IN  /\ cov.ok
               /\ ~IsConstant(seqX)
               /\ ~IsConstant(seqY)
               /\ IsFinite(cov.val)
               /\ Sgn(cov.val.num) = Sgn(ret.val.num)
               /\ Sgn(ret.val.num) = Sgn(RawNumerator(seqX, seqY))

\* coefficientCorrelation has returned a negative value.
C29_Witness ==
    /\ fn = "coefficientCorrelation"
    /\ ret.ok
    /\ ret.val.num < 0
    /\ covariance(seqX, seqY).ok


\* The range s with the elements at positions i and i + 1 exchanged.
Exchanged(s, i) ==
    [k \in 1..Len(s) |-> IF k = i THEN s[i + 1] ELSE IF k = i + 1 THEN s[i] ELSE s[k]]

\* C30: a result does not depend on the order of the elements.  Over all
\* ranges and all positions: sum, sumSquared, product, average and
\* geometricMean return the same value when two neighbouring elements of
\* the range are exchanged; sumProduct, covariance and
\* coefficientCorrelation return the same outcome, value or failure, when
\* the same two neighbouring positions are exchanged in both of two ranges
\* of equal length.  Every permutation is a chain of such exchanges, each
\* of them between two ranges of the set, so the results agree on every
\* permutation.
C30_ResultsIgnoreElementOrder ==
    fn # "none"
        => \A i \in 1..(Len(seqX) - 1) :
            LET px == Exchanged(seqX, i)
            IN  CASE fn = "sum" -> sum(px) = ret
                  [] fn = "sumSquared" -> sumSquared(px) = ret
                  [] fn = "product" -> product(px) = ret
                  [] fn = "average" -> average(px) = ret
                  [] fn = "geometricMean" -> geometricMean(px) = ret
                  [] fn = "sumProduct" ->
                         SameLength => sumProduct(px, Exchanged(seqY, i)) = ret
                  [] fn = "covariance" ->
                         SameLength => covariance(px, Exchanged(seqY, i)) = ret
                  [] fn = "coefficientCorrelation" ->
                         SameLength => coefficientCorrelation(px, Exchanged(seqY, i)) = ret
                  [] OTHER -> TRUE

\* coefficientCorrelation has returned a value on two ranges of three
\* elements, the first with three different elements in no sorted order.
C30_Witness ==
    /\ fn = "coefficientCorrelation"
    /\ ret.ok
    /\ Len(seqX) = 3
    /\ seqX[1] > seqX[2]
    /\ seqX[2] < seqX[3]
    /\ seqX[1] # seqX[3]
    /\ ~IsConstant(seqY)

====
